---- MODULE Spec2Model ----
(***************************************************************************)
(* Model of the UPS SNMP polling coordinator                               *)
(* (custom_components/ups_snmp_ha/coordinator.py and snmp_helper.py).      *)
(*                                                                         *)
(* Values.  Python values are tagged records [k, v]:                       *)
(*   None            [k |-> "none",  v |-> 0]                              *)
(*   int n           [k |-> "int",   v |-> n]                              *)
(*   float x         [k |-> "float", v |-> 1000 * x]  (thousandths)        *)
(*   str s           [k |-> "str",   v |-> s]   s a sequence of characters *)
(*   bool b          [k |-> "bool",  v |-> b]                              *)
(* A dict is a function whose DOMAIN is its set of keys.                   *)
(* "\E x \in {e} : A" in an action binds x to the value of e, computed    *)
(* once, where a LET would have e computed again at each use of x.         *)
(* Time (time.monotonic()) is counted in whole seconds.                    *)
(***************************************************************************)
EXTENDS Integers, Sequences, FiniteSets, TLC

None == [k |-> "none", v |-> 0]
PyInt(n) == [k |-> "int", v |-> n]
PyFloat(m) == [k |-> "float", v |-> m]
PyStr(s) == [k |-> "str", v |-> s]
PyBool(b) == [k |-> "bool", v |-> b]

EmptyDict == [x \in {} |-> None]

\* {**a, **b}: b's entries win, a's other entries are kept
DictMerge(a, b) == b @@ a

\* d.get(key): the value, or None for an absent key
DictGet(d, key) == IF key \in DOMAIN d THEN d[key] ELSE None

\* Python truthiness of a value (as used by "not x" and "x or y")
Truthy(val) ==
    CASE val.k = "none" -> FALSE
      [] val.k = "int" -> val.v # 0
      [] val.k = "float" -> val.v # 0
      [] val.k = "str" -> val.v # <<>>
      [] val.k = "bool" -> val.v

\* x or y
PyOr(x, y) == IF Truthy(x) THEN x ELSE y

Min(a, b) == IF a <= b THEN a ELSE b
Max(a, b) == IF a >= b THEN a ELSE b

RECURSIVE Pow(_, _)
Pow(b, e) == IF e = 0 THEN 1 ELSE b * Pow(b, e - 1)

(***************************************************************************)
(* Protocol tables (coordinator.py 24-91)                                  *)
(***************************************************************************)
UPS_MIB == "ups_mib"
APC_MIB == "apc_mib"

\* scale 0.1 is written in thousandths (100)
UPS_MIB_OIDS ==
    [manufacturer |-> [oid |-> "1.3.6.1.2.1.33.1.1.1.0"],
     model |-> [oid |-> "1.3.6.1.2.1.33.1.1.2.0"],
     firmware |-> [oid |-> "1.3.6.1.2.1.33.1.1.3.0"],
     name |-> [oid |-> "1.3.6.1.2.1.33.1.1.5.0"],
     battery_status |-> [oid |-> "1.3.6.1.2.1.33.1.2.1.0"],
     seconds_on_battery |-> [oid |-> "1.3.6.1.2.1.33.1.2.2.0"],
     runtime_remaining |-> [oid |-> "1.3.6.1.2.1.33.1.2.3.0"],
     battery_charge |-> [oid |-> "1.3.6.1.2.1.33.1.2.4.0"],
     battery_voltage |-> [oid |-> "1.3.6.1.2.1.33.1.2.5.0", scale |-> 100],
     battery_temperature |-> [oid |-> "1.3.6.1.2.1.33.1.2.7.0"],
     input_line_count |-> [oid |-> "1.3.6.1.2.1.33.1.3.2.0"],
     input_frequency |-> [oid |-> "1.3.6.1.2.1.33.1.3.3.1.2.1", scale |-> 100],
     input_voltage |-> [oid |-> "1.3.6.1.2.1.33.1.3.3.1.3.1"],
     input_current |-> [oid |-> "1.3.6.1.2.1.33.1.3.3.1.4.1", scale |-> 100],
     input_power |-> [oid |-> "1.3.6.1.2.1.33.1.3.3.1.5.1"],
     output_source_raw |-> [oid |-> "1.3.6.1.2.1.33.1.4.1.0"],
     output_frequency |-> [oid |-> "1.3.6.1.2.1.33.1.4.2.0", scale |-> 100],
     output_line_count |-> [oid |-> "1.3.6.1.2.1.33.1.4.3.0"],
     bypass_frequency |-> [oid |-> "1.3.6.1.2.1.33.1.5.1.0", scale |-> 100],
     bypass_line_count |-> [oid |-> "1.3.6.1.2.1.33.1.5.2.0"],
     alarms_present |-> [oid |-> "1.3.6.1.2.1.33.1.6.1.0"]]

APC_MIB_OIDS ==
    [model |-> [oid |-> "1.3.6.1.4.1.318.1.1.1.1.1.1.0"],
     name |-> [oid |-> "1.3.6.1.4.1.318.1.1.1.1.1.2.0"],
     firmware |-> [oid |-> "1.3.6.1.4.1.318.1.1.1.1.2.1.0"],
     serial_number |-> [oid |-> "1.3.6.1.4.1.318.1.1.1.1.2.3.0"],
     battery_status |-> [oid |-> "1.3.6.1.4.1.318.1.1.1.2.1.1.0"],
     battery_charge |-> [oid |-> "1.3.6.1.4.1.318.1.1.1.2.2.1.0"],
     battery_temperature |-> [oid |-> "1.3.6.1.4.1.318.1.1.1.2.2.2.0"],
     runtime_remaining |-> [oid |-> "1.3.6.1.4.1.318.1.1.1.2.2.3.0",
                            timeticks_minutes |-> TRUE],
     output_source_raw |-> [oid |-> "1.3.6.1.4.1.318.1.1.1.4.1.1.0"],
     output_voltage |-> [oid |-> "1.3.6.1.4.1.318.1.1.1.4.2.1.0"],
     output_frequency |-> [oid |-> "1.3.6.1.4.1.318.1.1.1.4.2.2.0"],
     output_load |-> [oid |-> "1.3.6.1.4.1.318.1.1.1.4.2.3.0"],
     input_voltage |-> [oid |-> "1.3.6.1.4.1.318.1.1.1.3.2.1.0"],
     input_frequency |-> [oid |-> "1.3.6.1.4.1.318.1.1.1.3.2.4.0"]]

UPS_OUTPUT_SOURCE_MAP ==
    (1 :> "other") @@ (2 :> "none") @@ (3 :> "normal") @@ (4 :> "bypass") @@
    (5 :> "battery") @@ (6 :> "booster") @@ (7 :> "reducer")

APC_OUTPUT_SOURCE_MAP ==
    (1 :> "other") @@ (2 :> "normal") @@ (3 :> "battery") @@ (4 :> "bypass")

BATTERY_STATUS_MAP ==
    (1 :> "unknown") @@ (2 :> "normal") @@ (3 :> "low") @@ (4 :> "depleted")

\* a string literal of the program, as a Python str value
Lit(s) == PyStr(<<s>>)

\* the keys of the raw telemetry, of either dialect
RawKeys == (DOMAIN UPS_MIB_OIDS) \cup (DOMAIN APC_MIB_OIDS)

\* the fast field set (coordinator.py 182-188)
fast_keys ==
    {"output_source_raw", "runtime_remaining", "seconds_on_battery",
     "battery_charge", "input_voltage"}

\* protocol_oids = UPS_MIB_OIDS if self.protocol == UPS_MIB else APC_MIB_OIDS
protocol_oids(protocol) == IF protocol = UPS_MIB THEN UPS_MIB_OIDS ELSE APC_MIB_OIDS

(***************************************************************************)
(* Value normalisation (coordinator.py 337-354)                            *)
(***************************************************************************)
Digits == {"0", "1", "2", "3", "4", "5", "6", "7", "8", "9"}

DigitVal(c) ==
    CASE c = "0" -> 0 [] c = "1" -> 1 [] c = "2" -> 2 [] c = "3" -> 3
      [] c = "4" -> 4 [] c = "5" -> 5 [] c = "6" -> 6 [] c = "7" -> 7
      [] c = "8" -> 8 [] c = "9" -> 9

IsDigits(s) == Len(s) >= 1 /\ \A i \in 1..Len(s) : s[i] \in Digits

RECURSIVE DigitsVal(_)
DigitsVal(s) ==
    IF s = <<>> THEN 0
    ELSE 10 * DigitsVal(SubSeq(s, 1, Len(s) - 1)) + DigitVal(s[Len(s)])

\* str.strip(): leading and trailing blanks removed
RECURSIVE Strip(_)
Strip(s) ==
    IF s = <<>> THEN s
    ELSE IF Head(s) = " " THEN Strip(Tail(s))
    ELSE IF s[Len(s)] = " " THEN Strip(SubSeq(s, 1, Len(s) - 1))
    ELSE s

\* re.search(r"\((\d+)\)", text): the positions i < j of the parentheses of
\* the leftmost match, as a set that is empty when nothing matches
ParenMatches(s) ==
    {m \in (1..Len(s)) \X (1..Len(s)) :
        /\ m[1] + 1 < m[2]
        /\ s[m[1]] = "("
        /\ s[m[2]] = ")"
        /\ IsDigits(SubSeq(s, m[1] + 1, m[2] - 1))}

FirstParenMatch(s) ==
    CHOOSE m \in ParenMatches(s) : \A o \in ParenMatches(s) : m[1] <= o[1]

\* re.fullmatch(r"-?\d+", text)
IsIntText(s) ==
    IF s # <<>> /\ Head(s) = "-" THEN IsDigits(Tail(s)) ELSE IsDigits(s)

IntTextVal(s) ==
    IF Head(s) = "-" THEN 0 - DigitsVal(Tail(s)) ELSE DigitsVal(s)

\* re.fullmatch(r"-?\d+\.\d+", text): the position of the dot, or 0
FloatDot(s) ==
    LET body == IF s # <<>> /\ Head(s) = "-" THEN Tail(s) ELSE s
        dots == {i \in 1..Len(body) :
                    /\ body[i] = "."
                    /\ IsDigits(SubSeq(body, 1, i - 1))
                    /\ IsDigits(SubSeq(body, i + 1, Len(body)))}
    IN  IF dots = {} THEN 0 ELSE CHOOSE i \in dots : TRUE

\* float(text) in thousandths; digits after the third decimal are dropped
FloatTextVal(s) ==
    LET neg == Head(s) = "-"
        body == IF neg THEN Tail(s) ELSE s
        dot == FloatDot(s)
        frac == SubSeq(body, dot + 1, Len(body))
        frac3 == SubSeq(frac \o <<"0", "0", "0">>, 1, 3)
        mag == 1000 * DigitsVal(SubSeq(body, 1, dot - 1)) + DigitsVal(frac3)
    IN  IF neg THEN 0 - mag ELSE mag

coerce_snmp_value(value) ==
    IF value.k = "none" THEN None
    ELSE IF value.k \in {"int", "float"} THEN value
    ELSE LET text == Strip(value.v)
         IN  IF text = <<>> THEN None
             ELSE IF ParenMatches(text) # {}
                  THEN LET m == FirstParenMatch(text)
                       IN  PyInt(DigitsVal(SubSeq(text, m[1] + 1, m[2] - 1)))
             ELSE IF IsIntText(text) THEN PyInt(IntTextVal(text))
             ELSE IF FloatDot(text) # 0 THEN PyFloat(FloatTextVal(text))
             ELSE PyStr(text)

\* round(num / den) to the nearest integer, ties to even (den > 0)
RoundDiv(num, den) ==
    LET q == num \div den
        r == num % den
    IN  IF 2 * r < den THEN q
        ELSE IF 2 * r > den THEN q + 1
        ELSE IF q % 2 = 0 THEN q ELSE q + 1

IsNumber(val) == val.k \in {"int", "float"}

\* the number in thousandths
Milli(val) == IF val.k = "int" THEN 1000 * val.v ELSE val.v

\* round(value / 6000, 1)
TimeticksMinutes(value) == PyFloat(100 * RoundDiv(Milli(value), 600000))

\* round(value * scale, 2), scale in thousandths: the product of the two is
\* in millionths, the result in hundredths
Scaled(value, scale) == PyFloat(10 * RoundDiv(Milli(value) * scale, 10000))

(***************************************************************************)
(* _fetch_keys, lines 269-285: the normalisation of one batch reply.       *)
(* raw maps each queried identifier to a str or None.  The result is       *)
(* [raised, data]: raised when value / 6000 is applied to a str.           *)
(***************************************************************************)
HasFlag(spec, f) == f \in DOMAIN spec /\ spec[f] = TRUE

NormalizeOne(spec, value) ==
    LET v1 == IF HasFlag(spec, "timeticks_minutes") THEN TimeticksMinutes(value)
              ELSE value
    IN  IF "scale" \in DOMAIN spec /\ IsNumber(v1) THEN Scaled(v1, spec.scale)
        ELSE v1

FetchOids(oid_map, keys) == {oid_map[key].oid : key \in keys \cap DOMAIN oid_map}

\* mutant: a key whose identifier returned nothing is stored as 0
fetch_keys_result_zero_default(oid_map, keys, raw) ==
    LET known == keys \cap DOMAIN oid_map
        value(key) == coerce_snmp_value(DictGet(raw, oid_map[key].oid))
    IN  [raised |-> FALSE,
         data |-> [key \in known |->
                      IF value(key) = None THEN PyInt(0) ELSE value(key)]]

fetch_keys_result(oid_map, keys, raw) ==
    LET known == keys \cap DOMAIN oid_map
        value(key) == coerce_snmp_value(DictGet(raw, oid_map[key].oid))
        present == {key \in known : value(key) # None}
        raises == \E key \in present :
                     HasFlag(oid_map[key], "timeticks_minutes") /\ ~IsNumber(value(key))
    IN  [raised |-> raises,
         data |-> IF raises THEN EmptyDict
                  ELSE [key \in present |-> NormalizeOne(oid_map[key], value(key))]]

(***************************************************************************)
(* _derive_states (coordinator.py 287-324)                                 *)
(***************************************************************************)
\* int(x) of Python: [ok, n]; a str must be an optionally signed digit string
IntOf(val) ==
    CASE val.k = "int" -> [ok |-> TRUE, n |-> val.v]
      [] val.k = "bool" -> [ok |-> TRUE, n |-> IF val.v THEN 1 ELSE 0]
      [] val.k = "float" ->
            [ok |-> TRUE,
             n |-> IF val.v >= 0 THEN val.v \div 1000 ELSE 0 - ((0 - val.v) \div 1000)]
      [] val.k = "str" ->
            LET text == Strip(val.v)
                signed == text # <<>> /\ Head(text) \in {"+", "-"}
                body == IF signed THEN Tail(text) ELSE text
            IN  IF IsDigits(body)
                THEN [ok |-> TRUE,
                      n |-> IF signed /\ Head(text) = "-" THEN 0 - DigitsVal(body)
                            ELSE DigitsVal(body)]
                ELSE [ok |-> FALSE, n |-> 0]
      [] OTHER -> [ok |-> FALSE, n |-> 0]

\* map.get(code, "unknown")
MapGet(map, code) == IF code \in DOMAIN map THEN map[code] ELSE "unknown"

\* mutant: a battery status that is no code of the table derives nothing
BatteryStatusDerived_in_range_only(data) ==
    LET battery_status == DictGet(data, "battery_status")
    IN  IF /\ battery_status # None
           /\ IntOf(battery_status).ok
           /\ IntOf(battery_status).n \in DOMAIN BATTERY_STATUS_MAP
        THEN "battery_status_text" :> Lit(BATTERY_STATUS_MAP[IntOf(battery_status).n])
        ELSE EmptyDict

\* lines 292-299
BatteryStatusDerived(data) ==
    LET battery_status == DictGet(data, "battery_status")
    IN  IF battery_status # None
        THEN "battery_status_text" :>
                (IF IntOf(battery_status).ok
                 THEN Lit(MapGet(BATTERY_STATUS_MAP, IntOf(battery_status).n))
                 ELSE Lit("unknown"))
        ELSE EmptyDict

\* mutant: both dialects decode the code with the UPS dialect's table
source_map_shared(protocol) == UPS_OUTPUT_SOURCE_MAP

\* lines 304-311
source_map(protocol) ==
    IF protocol = APC_MIB THEN APC_OUTPUT_SOURCE_MAP ELSE UPS_OUTPUT_SOURCE_MAP

\* mutant: both dialects take the UPS dialect's codes for mains power
normal_values_shared(protocol) == {3, 4}

normal_values(protocol) == IF protocol = APC_MIB THEN {2, 4} ELSE {3, 4}
battery_values(protocol) == IF protocol = APC_MIB THEN {3} ELSE {5}

\* mutant: without an output source code the three booleans default to false
derive_states_default_false(protocol, data) ==
    LET output_source_raw == DictGet(data, "output_source_raw")
        derived == BatteryStatusDerived(data)
    IN  IF output_source_raw = None
        THEN [raised |-> FALSE,
              derived |-> DictMerge(derived,
                 [on_battery |-> PyBool(FALSE), ac_power |-> PyBool(FALSE),
                  on_bypass |-> PyBool(FALSE)])]
        ELSE IF ~IntOf(output_source_raw).ok
        THEN [raised |-> TRUE, derived |-> EmptyDict]
        ELSE LET code == IntOf(output_source_raw).n
                 output_source_text == MapGet(source_map(protocol), code)
             IN  [raised |-> FALSE,
                  derived |-> DictMerge(derived,
                     [output_source |-> Lit(output_source_text),
                      on_battery |-> PyBool(code \in battery_values(protocol)),
                      ac_power |-> PyBool(code \in normal_values(protocol)),
                      on_bypass |-> PyBool(output_source_text = "bypass")])]

\* [raised, derived]: raised when int(output_source_raw) fails (line 313)
derive_states(protocol, data) ==
    LET output_source_raw == DictGet(data, "output_source_raw")
        derived == BatteryStatusDerived(data)
    IN  IF output_source_raw = None THEN [raised |-> FALSE, derived |-> derived]
        ELSE IF ~IntOf(output_source_raw).ok
        THEN [raised |-> TRUE, derived |-> EmptyDict]
        ELSE LET code == IntOf(output_source_raw).n
                 output_source_text == MapGet(source_map(protocol), code)
             IN  [raised |-> FALSE,
                  derived |-> DictMerge(derived,
                     [output_source |-> Lit(output_source_text),
                      on_battery |-> PyBool(code \in battery_values(protocol)),
                      ac_power |-> PyBool(code \in normal_values(protocol)),
                      on_bypass |-> PyBool(output_source_text = "bypass")])]

(***************************************************************************)
(* _update_metadata (coordinator.py 326-335): the new                      *)
(* [manufacturer, hw_model, serial_number, fw_version]                     *)
(***************************************************************************)
\* mutant: a field without a usable value in the snapshot is set to None
update_metadata_no_fallback(protocol, data, meta) ==
    LET got == DictGet(data, "manufacturer")
        manufacturer == IF ~Truthy(got) /\ protocol = APC_MIB THEN Lit("APC") ELSE got
    IN  [manufacturer |-> PyOr(manufacturer, None),
         hw_model |-> PyOr(DictGet(data, "model"), None),
         serial_number |-> PyOr(DictGet(data, "serial_number"), None),
         fw_version |-> PyOr(DictGet(data, "firmware"), None)]

update_metadata(protocol, data, meta) ==
    LET got == DictGet(data, "manufacturer")
        manufacturer == IF ~Truthy(got) /\ protocol = APC_MIB THEN Lit("APC") ELSE got
    IN  [manufacturer |-> PyOr(manufacturer, meta.manufacturer),
         hw_model |-> PyOr(DictGet(data, "model"), meta.hw_model),
         serial_number |-> PyOr(DictGet(data, "serial_number"), meta.serial_number),
         fw_version |-> PyOr(DictGet(data, "firmware"), meta.fw_version)]

(***************************************************************************)
(* The system: coordinators, refresh tasks, the lock registry, the device  *)
(***************************************************************************)
Tasks == {"t1", "t2"}
Coords == {"c1", "c2"}
Hosts == {"h1", "h2"}

\* The instants at which something happens: the k-th is the earliest one at
\* which the backoff set by a k-th failure in a row, each at the instant
\* before, has run out: 1, 3, 7, 15, 31, 63, 123, ...
StartTime == 1
RECURSIVE InstantAt(_)
InstantAt(k) ==
    IF k = 1 THEN StartTime
    ELSE InstantAt(k - 1) + Min(60, Pow(2, k - 1))

\* the number of instants of the longest runs
MaxInstants == 5

\* the number of instants over which a device that answers every listed
\* identifier is followed
FullInstants == 3

\* the number of instants over which two coordinators are followed side by side
PairInstants == 2

\* the configured slow_poll_interval values tried
SlowInputs == {3, 12}

\* The runs explored.  coord2 and host2: the coordinator of task t2 and the
\* host of coordinator c2 (t1 runs c1 on h1); slow: the configured slow
\* interval; device: which identifiers the device answers; horizon: the
\* last instant of the run.
Scenarios ==
    {[coord2 |-> "c1", host2 |-> "h1", slow |-> 3, device |-> "full",
      horizon |-> InstantAt(FullInstants)]}
    \cup
    {[coord2 |-> "c1", host2 |-> "h1", slow |-> i, device |-> "flaky",
      horizon |-> InstantAt(MaxInstants)] : i \in SlowInputs}
    \cup
    {[coord2 |-> "c2", host2 |-> h, slow |-> 3, device |-> "dual",
      horizon |-> InstantAt(PairInstants)] : h \in Hosts}

\* the number of instants over which the slow cadence is followed
SlowInstants == 4

\* The runs that follow the slow cadence of one coordinator against a device
\* that always answers the fast output source field and sometimes a slow one
SlowScenarios ==
    {[coord2 |-> "c1", host2 |-> "h1", slow |-> i, device |-> "slow",
      horizon |-> InstantAt(SlowInstants)] : i \in SlowInputs}

\* the number of instants over which a device of the vendor dialect is followed
VendorInstants == 4

\* The runs against a device of the vendor dialect whose model field changes
\* and whose runtime field may hold a text
VendorScenarios ==
    {[coord2 |-> "c1", host2 |-> "h1", slow |-> 3, device |-> "vendor",
      horizon |-> InstantAt(VendorInstants)]}

\* The runs of Scenarios in which two coordinators are followed side by
\* side, configured for the same host and for two hosts
PairScenarios == {s \in Scenarios : s.coord2 = "c2"}

\* the number of instants over which queued refreshes are followed
QueueInstants == 2

\* The runs in which two refreshes queue for the lock of one host: two of
\* one coordinator, and two coordinators configured for the same host
QueueScenarios ==
    {[coord2 |-> c, host2 |-> "h1", slow |-> 3, device |-> "flaky",
      horizon |-> InstantAt(QueueInstants)] : c \in Coords}

\* the number of instants over which the output source states are followed
SourceInstants == 2

\* The runs of two coordinators of one host against a device that answers
\* both dialects and reports bypass and battery as its output source
SourceScenarios ==
    {[coord2 |-> "c2", host2 |-> "h1", slow |-> 3, device |-> "source",
      horizon |-> InstantAt(SourceInstants)]}

VARIABLES
    scenario,            \* the run explored, one of Scenarios
    now,                 \* time.monotonic()
    coord,               \* task -> the coordinator whose refresh it runs
    host,                \* self.host
    slow_poll_interval,  \* self.slow_poll_interval
    io_lock,             \* self._io_lock: the key of the lock in hass.data[DOMAIN]["snmp_locks"]
    locks,               \* the asyncio.Lock objects: [locked, waiters]
    protocol,            \* self.protocol ("none" for None)
    snmp_version,        \* self.snmp_version
    last_slow_poll,      \* self._last_slow_poll
    data,                \* self.data
    metadata,            \* self.manufacturer, hw_model, serial_number, fw_version
    failure_count,       \* self._failure_count
    backoff_until,       \* self._backoff_until
    pc,                  \* where each task's _async_update_data is suspended
    t_now,               \* the local now of _async_update_data
    probe,               \* _detect_protocol in this cycle: i while its i-th probe
                         \* is out, 5 once all four have missed, else 0
    fast_data,           \* the local fast_data of _async_update_data_locked
    req,                 \* the transport call a task has in flight
    resp,                \* the reply a task's transport call has returned
    result,              \* how the task's last refresh ended
    fail_run,            \* history: failed cycles since the last success
    fail_time,           \* history: time of the last of these failed cycles
    returned,            \* history: identifiers the transport returned a value for
    carried,             \* history: keys the last successful cycle did not fetch
                         \* and took over from the snapshot before it
    heard,               \* history: a transport call of the task's cycle has
                         \* returned a value
    silent,              \* history: no transport call of the coordinator's
                         \* last finished cycle returned a value
    slow_done,           \* history: a slow fetch of the coordinator has come
                         \* back, with or without values
    slow_got,            \* history: start time of the last cycle whose slow
                         \* fetch returned at least one value (0: none)
    call,                \* a function of the program called on its own: its
                         \* name and arguments
    ret                  \* what that call returned

cfg == <<scenario, coord, host, slow_poll_interval, io_lock>>
cstate == <<protocol, snmp_version, last_slow_poll, data, metadata,
            failure_count, backoff_until>>
tstate == <<pc, t_now, probe, fast_data, req, resp, result, heard>>
hist == <<fail_run, fail_time, returned, carried, silent, slow_done, slow_got>>
fn == <<call, ret>>
vars == <<now, cfg, locks, cstate, tstate, hist, fn>>

NoCall == [fn |-> "none"]
NoRet == [done |-> FALSE]

NoReq == [oids |-> {}, version |-> "-"]
NoResp == [none |-> TRUE]
NoMetadata ==
    [manufacturer |-> None, hw_model |-> None, serial_number |-> None,
     fw_version |-> None]

\* __init__, line 118
SlowPollInterval(slow) == Max(10, slow)

\* mutant: one lock for each config entry instead of one for each host
snmp_lock_key_per_entry(h, entry_id) == entry_id

\* __init__, lines 130-131: the registry key of the coordinator's lock
snmp_lock_key(h, entry_id) == h

FreeLock == [locked |-> FALSE, waiters |-> <<>>]

\* the coordinators after construction (__init__, lines 114-136) in a run of S
InitCoordinators(S) ==
    /\ scenario \in S
    /\ now = StartTime
    /\ coord = [t \in Tasks |-> IF t = "t1" THEN "c1" ELSE scenario.coord2]
    /\ host = [c \in Coords |-> IF c = "c1" THEN "h1" ELSE scenario.host2]
    /\ slow_poll_interval = [c \in Coords |-> SlowPollInterval(scenario.slow)]
    /\ io_lock = [c \in Coords |-> snmp_lock_key(host[c], c)]
    /\ locks = [key \in {io_lock[c] : c \in Coords} |-> FreeLock]
    /\ protocol = [c \in Coords |-> "none"]
    /\ snmp_version = [c \in Coords |-> "2c"]
    /\ last_slow_poll = [c \in Coords |-> 0]
    /\ data = [c \in Coords |-> EmptyDict]
    /\ metadata = [c \in Coords |-> NoMetadata]
    /\ failure_count = [c \in Coords |-> 0]
    /\ backoff_until = [c \in Coords |-> 0]
    /\ pc = [t \in Tasks |-> "idle"]
    /\ t_now = [t \in Tasks |-> 0]
    /\ probe = [t \in Tasks |-> 0]
    /\ fast_data = [t \in Tasks |-> EmptyDict]
    /\ req = [t \in Tasks |-> NoReq]
    /\ resp = [t \in Tasks |-> NoResp]
    /\ result = [t \in Tasks |-> "none"]
    /\ fail_run = [c \in Coords |-> 0]
    /\ fail_time = [c \in Coords |-> 0]
    /\ returned = [c \in Coords |-> {}]
    /\ carried = [c \in Coords |-> {}]
    /\ heard = [t \in Tasks |-> FALSE]
    /\ silent = [c \in Coords |-> FALSE]
    /\ slow_done = [c \in Coords |-> FALSE]
    /\ slow_got = [c \in Coords |-> 0]

\* the state after construction in a run of S; no function is called on its own
InitIn(S) ==
    /\ InitCoordinators(S)
    /\ call = NoCall
    /\ ret = NoRet

Init == InitIn(Scenarios)

(***************************************************************************)
(* The transport (snmp_helper.py).  The outcome of one GET is a record     *)
(* [kind, text]: kind "value" with the text of the returned object, or one *)
(* of the failures.                                                        *)
(***************************************************************************)
OutcomeKinds ==
    {"value", "missing", "no_var_binds", "error_indication", "error_status",
     "timeout", "exception"}

\* _async_get_snmp_value, lines 61-107: the str returned, or None
get_snmp_value(outcome) ==
    IF outcome.kind = "value" /\ Strip(outcome.text) # <<>>
    THEN PyStr(Strip(outcome.text))
    ELSE None

\* the results of asyncio.gather, one for each position of the list
gather(outcomes) == [i \in 1..Len(outcomes) |-> get_snmp_value(outcomes[i])]

\* the dict filled by the loop of lines 127-131: a later position of the
\* same identifier overwrites an earlier one
ValuesOf(oids, results) ==
    [oid \in {oids[i] : i \in 1..Len(oids)} |->
        results[CHOOSE i \in 1..Len(oids) :
                   /\ oids[i] = oid
                   /\ \A j \in 1..Len(oids) : oids[j] = oid => j <= i]]

\* mutant: one failed GET makes the whole batch come back empty-handed
get_snmp_values_all_or_nothing(oids, outcomes) ==
    IF oids = <<>> THEN EmptyDict
    ELSE IF \E i \in 1..Len(outcomes) : get_snmp_value(outcomes[i]) = None
    THEN [oid \in {oids[i] : i \in 1..Len(oids)} |-> None]
    ELSE ValuesOf(oids, gather(outcomes))

\* _async_get_snmp_values, lines 117-133
get_snmp_values(oids, outcomes) ==
    IF oids = <<>> THEN EmptyDict
    ELSE ValuesOf(oids, gather(outcomes))

\* async_get_snmp_values, lines 156-167: [raised, values]
async_get_snmp_values(oids, outcomes, hass, use_executor) ==
    IF oids = <<>> THEN [raised |-> FALSE, values |-> EmptyDict]
    ELSE IF use_executor /\ ~hass THEN [raised |-> TRUE, values |-> EmptyDict]
    ELSE [raised |-> FALSE, values |-> get_snmp_values(oids, outcomes)]

(***************************************************************************)
(* The device: what each identifier may answer (None: timeout, error or a  *)
(* missing-value sentinel, all the same to the caller, snmp_helper.py      *)
(* 74-107).  Identifiers not listed never answer.                          *)
(***************************************************************************)
DeviceAnswers(device) ==
    IF device = "full"
    THEN (UPS_MIB_OIDS.output_source_raw.oid :>
             {None, PyStr(<<"3">>), PyStr(<<"5">>), PyStr(<<"x">>)}) @@
         (UPS_MIB_OIDS.battery_status.oid :> {None, PyStr(<<"2">>)}) @@
         (APC_MIB_OIDS.model.oid :> {None, PyStr(<<"M">>)}) @@
         (APC_MIB_OIDS.output_source_raw.oid :> {None, PyStr(<<"3">>)})
    ELSE IF device = "dual"
    THEN (UPS_MIB_OIDS.output_source_raw.oid :> {None, PyStr(<<"3">>)}) @@
         (APC_MIB_OIDS.model.oid :> {None, PyStr(<<"M">>)})
    ELSE IF device = "vendor"
    THEN (APC_MIB_OIDS.model.oid :>
             {None, PyStr(<<"M">>), PyStr(<<"N">>), PyStr(<<"0">>)}) @@
         (APC_MIB_OIDS.runtime_remaining.oid :> {None, PyStr(<<"n", "/", "a">>)})
    ELSE IF device = "source"
    THEN (UPS_MIB_OIDS.output_source_raw.oid :>
             {None, PyStr(<<"4">>), PyStr(<<"5">>)}) @@
         (APC_MIB_OIDS.model.oid :> {PyStr(<<"M">>)}) @@
         (APC_MIB_OIDS.output_source_raw.oid :> {PyStr(<<"3">>), PyStr(<<"4">>)})
    ELSE IF device = "slow"
    THEN (UPS_MIB_OIDS.output_source_raw.oid :> {PyStr(<<"3">>)}) @@
         (UPS_MIB_OIDS.battery_status.oid :> {None, PyStr(<<"2">>)})
    ELSE (UPS_MIB_OIDS.output_source_raw.oid :> {None, PyStr(<<"3">>)})

\* async_get_snmp_values (snmp_helper.py 110-133, 147-167): the possible
\* results of one batch, a value or None for every identifier asked
Replies(device, oids) ==
    LET answers == DeviceAnswers(device)
        live == oids \cap DOMAIN answers
        values == UNION {answers[oid] : oid \in live}
        picks == {g \in [live -> values] : \A oid \in live : g[oid] \in answers[oid]}
    IN  {[oid \in oids |-> IF oid \in live THEN g[oid] ELSE None] : g \in picks}

(***************************************************************************)
(* asyncio.Lock as used by "async with self._io_lock" (coordinator.py 156):*)
(* acquire() takes a free lock at once when nobody waits for it, otherwise *)
(* queues; release() frees it and wakes the first waiter.                  *)
(***************************************************************************)
LockIsFree(lk) == ~lk.locked /\ lk.waiters = <<>>
LockAcquire(lk) == [lk EXCEPT !.locked = TRUE]

\* mutant: a task that finds the lock taken is not put in the queue
LockEnqueue_dropped(lk, t) == lk

LockEnqueue(lk, t) == [lk EXCEPT !.waiters = Append(@, t)]
LockWake(lk) == [locked |-> TRUE, waiters |-> Tail(lk.waiters)]
LockRelease(lk) == [lk EXCEPT !.locked = FALSE]

\* mutant: the lock is released on the normal path only
io_lock_exit_no_release_on_error(lk, raised) == IF raised THEN lk ELSE LockRelease(lk)

\* the lock when the "async with" block is left, normally or by an exception
io_lock_exit(lk, raised) == LockRelease(lk)

(***************************************************************************)
(* Backoff (coordinator.py 133-145, 208-212)                               *)
(***************************************************************************)
backoff_base == 2
backoff_max == 60

\* mutant: the gate still rejects at the deadline itself
BackoffActive_inclusive(until, n) == until # 0 /\ n <= until

\* mutant: the gate compares the wrong way round
BackoffActive_reversed(until, n) == until # 0 /\ n > until

\* line 142: self._backoff_until and now < self._backoff_until
BackoffActive(until, n) == until # 0 /\ n < until

\* mutant: the exponential backoff without its cap
BackoffSeconds_uncapped(count) == Pow(backoff_base, count)

\* line 211
BackoffSeconds(count) == Min(backoff_max, Pow(backoff_base, count))

(***************************************************************************)
(* Protocol detection (coordinator.py 222-252)                             *)
(***************************************************************************)
\* mutant: the vendor dialect is tried before the UPS dialect
ProbeOrder_vendor_first ==
    << [protocol |-> APC_MIB, version |-> "2c"],
       [protocol |-> UPS_MIB, version |-> "2c"],
       [protocol |-> APC_MIB, version |-> "1"],
       [protocol |-> UPS_MIB, version |-> "1"] >>

\* the for loop of _detect_protocol, unrolled
ProbeOrder ==
    << [protocol |-> UPS_MIB, version |-> "2c"],
       [protocol |-> APC_MIB, version |-> "2c"],
       [protocol |-> UPS_MIB, version |-> "1"],
       [protocol |-> APC_MIB, version |-> "1"] >>

\* _try_protocol, lines 239-242
test_oid(p) ==
    IF p = UPS_MIB THEN UPS_MIB_OIDS.output_source_raw.oid ELSE APC_MIB_OIDS.model.oid

ProbeReq(i) == [oids |-> {test_oid(ProbeOrder[i].protocol)}, version |-> ProbeOrder[i].version]

\* _fetch_keys, lines 256-267
FetchReq(p, version, keys) == [oids |-> FetchOids(protocol_oids(p), keys), version |-> version]

\* line 193
slow_keys(p) == (DOMAIN protocol_oids(p)) \ fast_keys

\* mutant: the slow fetch waits until more than the interval has passed
SlowDue_strict(n, last, interval) == n - last > interval \/ last = 0

\* line 192
SlowDue(n, last, interval) == n - last >= interval \/ last = 0

\* mutant: the previous snapshot is laid over the new values
MergeData_stale_wins(prev, slow, fast) == DictMerge(DictMerge(slow, fast), prev)

\* line 201: {**self.data, **slow_data, **fast_data}
MergeData(prev, slow, fast) == DictMerge(DictMerge(prev, slow), fast)

SetT(f, t, val) == [f EXCEPT ![t] = val]

\* mutant: the attribute is shared by all coordinator instances
SetAttr_shared(f, c, val) == [d \in DOMAIN f |-> val]

\* self.<attribute> = val: the attribute of the one instance c
SetAttr(f, c, val) == [f EXCEPT ![c] = val]

\* mutant: a refresh rejected by the gate is counted as a failure
gate_rejected_counts_failure(count, until, n) ==
    [failure_count |-> count + 1, backoff_until |-> n + BackoffSeconds(count + 1)]

\* lines 142-145: the gate raises before the try block of line 155, so that
\* _handle_update_failure is not called: [failure_count, backoff_until]
gate_rejected(count, until, n) == [failure_count |-> count, backoff_until |-> until]

\* the task's locals when _async_update_data returns or raises
TaskEnds(t, how) ==
    /\ pc' = SetT(pc, t, "idle")
    /\ result' = SetT(result, t, how)
    /\ t_now' = SetT(t_now, t, 0)
    /\ probe' = SetT(probe, t, 0)
    /\ fast_data' = SetT(fast_data, t, EmptyDict)
    /\ req' = SetT(req, t, NoReq)
    /\ resp' = SetT(resp, t, NoResp)
    /\ heard' = SetT(heard, t, FALSE)

\* mutant: detection runs again while the dialect is the UPS dialect
NeedsDetection_unless_vendor(p) == p # APC_MIB

\* line 178
NeedsDetection(p) == p = "none"

\* lines 181-189: the fast fetch is issued
StartFast(t, p, version) ==
    /\ pc' = SetT(pc, t, "fast")
    /\ req' = SetT(req, t, FetchReq(p, version, fast_keys))
    /\ resp' = SetT(resp, t, NoResp)
    /\ fast_data' = fast_data

\* mutant: the backoff gate is applied again when the lock has been acquired
StartLocked_gate_again(t, p, version) ==
    /\ ~BackoffActive(backoff_until[coord[t]], now)
    /\ IF NeedsDetection(p)
       THEN /\ pc' = SetT(pc, t, "probe")
            /\ probe' = SetT(probe, t, 1)
            /\ req' = SetT(req, t, ProbeReq(1))
            /\ resp' = SetT(resp, t, NoResp)
            /\ fast_data' = fast_data
       ELSE /\ StartFast(t, p, version)
            /\ probe' = probe

\* lines 178-189, up to the first transport call of the locked section
StartLocked(t, p, version) ==
    IF NeedsDetection(p)
    THEN /\ pc' = SetT(pc, t, "probe")
         /\ probe' = SetT(probe, t, 1)
         /\ req' = SetT(req, t, ProbeReq(1))
         /\ resp' = SetT(resp, t, NoResp)
         /\ fast_data' = fast_data
    ELSE /\ StartFast(t, p, version)
         /\ probe' = probe

(***************************************************************************)
(* _async_update_data, lines 138-165: the backoff gate and the lock        *)
(***************************************************************************)
Refresh(t) ==
    LET c == coord[t]
        key == io_lock[c]
        rejected == gate_rejected(failure_count[c], backoff_until[c], now)
    IN  /\ pc[t] = "idle"
        /\ IF BackoffActive(backoff_until[c], now)
           THEN /\ result' = SetT(result, t, "backoff")
                /\ failure_count' = SetAttr(failure_count, c, rejected.failure_count)
                /\ backoff_until' = SetAttr(backoff_until, c, rejected.backoff_until)
                /\ UNCHANGED <<pc, t_now, probe, fast_data, req, resp, locks>>
           ELSE /\ result' = SetT(result, t, "running")
                /\ UNCHANGED <<failure_count, backoff_until>>
                /\ t_now' = SetT(t_now, t, now)
                /\ IF LockIsFree(locks[key])
                   THEN /\ locks' = [locks EXCEPT ![key] = LockAcquire(@)]
                        /\ StartLocked(t, protocol[c], snmp_version[c])
                   ELSE /\ locks' = [locks EXCEPT ![key] = LockEnqueue(@, t)]
                        /\ pc' = SetT(pc, t, "lock_wait")
                        /\ UNCHANGED <<probe, fast_data, req, resp>>
        /\ UNCHANGED <<now, cfg, protocol, snmp_version, last_slow_poll, data,
                       metadata, heard, hist, fn>>

\* line 156: a queued task gets the lock
LockAcquired(t) ==
    LET c == coord[t]
        key == io_lock[c]
    IN  /\ pc[t] = "lock_wait"
        /\ ~locks[key].locked
        /\ locks[key].waiters # <<>>
        /\ Head(locks[key].waiters) = t
        /\ locks' = [locks EXCEPT ![key] = LockWake(@)]
        /\ StartLocked(t, protocol[c], snmp_version[c])
        /\ UNCHANGED <<now, cfg, cstate, t_now, result, heard, hist, fn>>

\* the transport call in flight returns
DeviceReply(t) ==
    /\ req[t] # NoReq
    /\ \E reply \in Replies(scenario.device, req[t].oids) :
          /\ resp' = SetT(resp, t, reply)
          /\ returned' = [returned EXCEPT ![coord[t]] =
                            @ \cup {oid \in DOMAIN reply : reply[oid] # None}]
          /\ heard' = SetT(heard, t, heard[t] \/ \E oid \in DOMAIN reply : reply[oid] # None)
    /\ req' = SetT(req, t, NoReq)
    /\ UNCHANGED <<now, cfg, locks, cstate, pc, t_now, probe, fast_data, result,
                   fail_run, fail_time, carried, silent, slow_done, slow_got, fn>>

(***************************************************************************)
(* _async_update_data_locked, lines 198-206, after the fetches:            *)
(* [raised, data, metadata]                                                *)
(***************************************************************************)
Raised ==
    [raised |-> TRUE, data |-> EmptyDict, metadata |-> NoMetadata, fetched |-> {}]

\* mutant: a cycle that fetched nothing fails whether or not a snapshot exists
locked_result_fail_when_nothing_fetched(p, prev, meta, fast, slow) ==
    IF fast = EmptyDict /\ slow = EmptyDict THEN Raised
    ELSE LET merged == MergeData(prev, slow, fast)
             ds == derive_states(p, merged)
         IN  IF ds.raised THEN Raised
             ELSE LET new == DictMerge(merged, ds.derived)
                  IN  [raised |-> FALSE, data |-> new,
                       metadata |-> update_metadata(p, new, meta),
                       fetched |-> (DOMAIN slow) \cup (DOMAIN fast)]

locked_result(p, prev, meta, fast, slow) ==
    IF fast = EmptyDict /\ slow = EmptyDict /\ prev = EmptyDict THEN Raised
    ELSE LET merged == MergeData(prev, slow, fast)
             ds == derive_states(p, merged)
         IN  IF ds.raised THEN Raised
             ELSE LET new == DictMerge(merged, ds.derived)
                  IN  [raised |-> FALSE, data |-> new,
                       metadata |-> update_metadata(p, new, meta),
                       fetched |-> (DOMAIN slow) \cup (DOMAIN fast)]

\* _handle_update_failure, lines 210-212: [failure_count, backoff_until]
handle_update_failure(count, n) ==
    [failure_count |-> count + 1, backoff_until |-> n + BackoffSeconds(count + 1)]

\* mutant: a success clears the deadline and leaves the count
reset_backoff_deadline_only(count, until) == [failure_count |-> count, backoff_until |-> 0]

\* mutant: a success resets the count and leaves the deadline
reset_backoff_count_only(count, until) == [failure_count |-> 0, backoff_until |-> until]

\* lines 172-173
reset_backoff(count, until) == [failure_count |-> 0, backoff_until |-> 0]

\* _async_update_data, lines 166-174: the locked section is left with the
\* outcome out; the returned snapshot becomes self.data
EndCycle(t, outcome) ==
    \E out \in {outcome} :
    LET c == coord[t]
        key == io_lock[c]
        bk == IF out.raised THEN handle_update_failure(failure_count[c], now)
              ELSE reset_backoff(failure_count[c], backoff_until[c])
    IN  /\ locks' = [locks EXCEPT ![key] = io_lock_exit(@, out.raised)]
        /\ failure_count' = SetAttr(failure_count, c, bk.failure_count)
        /\ backoff_until' = SetAttr(backoff_until, c, bk.backoff_until)
        /\ data' = [data EXCEPT ![c] = IF out.raised THEN @ ELSE out.data]
        /\ metadata' = [metadata EXCEPT ![c] = IF out.raised THEN @ ELSE out.metadata]
        /\ fail_run' = [fail_run EXCEPT ![c] = IF out.raised THEN @ + 1 ELSE 0]
        /\ fail_time' = [fail_time EXCEPT ![c] = IF out.raised THEN now ELSE 0]
        /\ carried' = [carried EXCEPT ![c] =
                          IF out.raised THEN @
                          ELSE ((DOMAIN data[c]) \cap RawKeys) \ out.fetched]
        /\ silent' = [silent EXCEPT ![c] = ~heard[t]]
        /\ TaskEnds(t, IF out.raised THEN "failed" ELSE "ok")

\* _detect_protocol, lines 224-235: a probe has returned
ProbeReturn(t) ==
    LET c == coord[t]
        i == probe[t]
        found == DictGet(resp[t], test_oid(ProbeOrder[i].protocol)) # None
    IN  /\ pc[t] = "probe"
        /\ resp[t] # NoResp
        /\ IF found
           THEN /\ protocol' = [protocol EXCEPT ![c] = ProbeOrder[i].protocol]
                /\ snmp_version' = [snmp_version EXCEPT ![c] = ProbeOrder[i].version]
                /\ StartFast(t, ProbeOrder[i].protocol, ProbeOrder[i].version)
                /\ probe' = SetT(probe, t, 0)
           ELSE IF i < Len(ProbeOrder)
           THEN /\ probe' = SetT(probe, t, i + 1)
                /\ req' = SetT(req, t, ProbeReq(i + 1))
                /\ resp' = SetT(resp, t, NoResp)
                /\ UNCHANGED <<protocol, snmp_version, pc, fast_data>>
           ELSE /\ protocol' = [protocol EXCEPT ![c] = UPS_MIB]
                /\ snmp_version' = snmp_version
                /\ StartFast(t, UPS_MIB, snmp_version[c])
                /\ probe' = SetT(probe, t, Len(ProbeOrder) + 1)
        /\ UNCHANGED <<now, cfg, locks, last_slow_poll, data, metadata,
                       failure_count, backoff_until, t_now, result, heard, hist, fn>>

\* _async_update_data_locked, lines 189-196: the fast fetch has returned
FastReturn(t) ==
    LET c == coord[t]
        p == protocol[c]
    IN  /\ pc[t] = "fast"
        /\ resp[t] # NoResp
        /\ \E fr \in {fetch_keys_result(protocol_oids(p), fast_keys, resp[t])} :
           IF fr.raised THEN EndCycle(t, Raised)
           ELSE IF SlowDue(t_now[t], last_slow_poll[c], slow_poll_interval[c])
           THEN /\ pc' = SetT(pc, t, "slow")
                /\ fast_data' = SetT(fast_data, t, fr.data)
                /\ req' = SetT(req, t, FetchReq(p, snmp_version[c], slow_keys(p)))
                /\ resp' = SetT(resp, t, NoResp)
                /\ UNCHANGED <<locks, data, metadata, failure_count, backoff_until,
                               t_now, probe, result, heard, fail_run, fail_time,
                               carried, silent>>
           ELSE EndCycle(t, locked_result(p, data[c], metadata[c], fr.data, EmptyDict))
        /\ UNCHANGED <<now, cfg, protocol, snmp_version, last_slow_poll, returned,
                       slow_done, slow_got, fn>>

\* _async_update_data_locked, lines 194-206: the slow fetch has returned
SlowReturn(t) ==
    LET c == coord[t]
        p == protocol[c]
    IN  /\ pc[t] = "slow"
        /\ resp[t] # NoResp
        /\ \E sr \in {fetch_keys_result(protocol_oids(p), slow_keys(p), resp[t])} :
           IF sr.raised
           THEN /\ EndCycle(t, Raised)
                /\ UNCHANGED <<last_slow_poll, slow_done, slow_got>>
           ELSE /\ slow_done' = [slow_done EXCEPT ![c] = TRUE]
                /\ slow_got' = [slow_got EXCEPT ![c] =
                                   IF \E oid \in DOMAIN resp[t] : resp[t][oid] # None
                                   THEN t_now[t] ELSE @]
                /\ last_slow_poll' =
                      [last_slow_poll EXCEPT ![c] =
                          IF sr.data # EmptyDict THEN t_now[t] ELSE @]
                /\ EndCycle(t, locked_result(p, data[c], metadata[c],
                                             fast_data[t], sr.data))
        /\ UNCHANGED <<now, cfg, protocol, snmp_version, returned, fn>>

\* time passes
Tick ==
    /\ \E k \in 1..MaxInstants :
          /\ InstantAt(k) > now
          /\ InstantAt(k) <= scenario.horizon
          /\ now' = InstantAt(k)
    /\ UNCHANGED <<cfg, locks, cstate, tstate, hist, fn>>

Next ==
    \/ Tick
    \/ \E t \in Tasks : Refresh(t)
    \/ \E t \in Tasks : LockAcquired(t)
    \/ \E t \in Tasks : DeviceReply(t)
    \/ \E t \in Tasks : ProbeReturn(t)
    \/ \E t \in Tasks : FastReturn(t)
    \/ \E t \in Tasks : SlowReturn(t)

Spec == Init /\ [][Next]_vars

\* the runs of VendorScenarios
InitVendor == InitIn(VendorScenarios)
SpecVendor == InitVendor /\ [][Next]_vars

\* A task that is past the gate proceeds: the event loop resumes a coroutine
\* whose lock has been handed over or whose transport call has returned.
\* New triggers and the passing of time are not forced.
Proceed(t) ==
    \/ LockAcquired(t)
    \/ DeviceReply(t)
    \/ ProbeReturn(t)
    \/ FastReturn(t)
    \/ SlowReturn(t)

Fairness == \A t \in Tasks : WF_vars(Proceed(t))

\* the runs of QueueScenarios, every transport call returning
InitQueue == InitIn(QueueScenarios)
SpecQueue == InitQueue /\ [][Next]_vars /\ Fairness

\* the runs of PairScenarios
InitPair == InitIn(PairScenarios)
SpecPair == InitPair /\ [][Next]_vars

\* the runs of SourceScenarios
InitSource == InitIn(SourceScenarios)
SpecSource == InitSource /\ [][Next]_vars

\* the runs of SlowScenarios
InitSlow == InitIn(SlowScenarios)
SpecSlow == InitSlow /\ [][Next]_vars

(***************************************************************************)
(* Functions of the program called on their own: _derive_states,           *)
(* _fetch_keys on one batch reply, and the transport's batch query.  Init  *)
(* draws the call, the action of the function makes it.                    *)
(***************************************************************************)
\* the output source and battery status codes tried run from -1 to MaxCode
MaxCode == 8

\* the longest identifier list of a batch query
MaxBatch == 2

\* values a snapshot can hold for output_source_raw and battery_status after
\* _coerce_snmp_value: an int, a float, a text that is no number (None: the
\* key is absent)
CodeInputs ==
    {None} \cup {PyInt(n) : n \in (0 - 1)..MaxCode} \cup
    {PyFloat(2000), PyFloat(5000), PyStr(<<"x">>)}

DataOf(osr, bs) ==
    (IF osr = None THEN EmptyDict ELSE "output_source_raw" :> osr) @@
    (IF bs = None THEN EmptyDict ELSE "battery_status" :> bs)

DeriveCalls ==
    {[fn |-> "derive_states", protocol |-> p, data |-> DataOf(osr, bs)] :
        p \in {UPS_MIB, APC_MIB}, osr \in CodeInputs, bs \in CodeInputs}

\* texts the transport can return for an identifier: two integers, a
\* decimal, a text with a parenthesised integer, a text that is no number
FetchTexts ==
    {<<"1", "2", "0", "0", "0">>, <<"1", "2", "3", "4">>, <<"2", "3", ".", "5">>,
     <<"o", "n", "(", "2", ")">>, <<"n", "/", "a">>}

\* one batch of a dialect, fast or slow, in which one identifier answers
FetchCalls ==
    UNION {UNION {{[fn |-> "fetch_keys", protocol |-> p, keys |-> keys,
                    oid |-> oid, text |-> text] :
                      oid \in FetchOids(protocol_oids(p), keys), text \in FetchTexts} :
                  keys \in {fast_keys, slow_keys(p)}} :
           p \in {UPS_MIB, APC_MIB}}

\* the reply of that batch, as async_get_snmp_values returns it
FetchRaw(c) ==
    [oid \in FetchOids(protocol_oids(c.protocol), c.keys) |->
        IF oid = c.oid THEN PyStr(c.text) ELSE None]

\* what one GET can end in
Outcomes ==
    {[kind |-> "value", text |-> text] : text \in {<<"3">>, <<" ", "7">>, <<" ">>}}
    \cup {[kind |-> kind, text |-> <<>>] : kind \in OutcomeKinds \ {"value"}}

BatchOids == {UPS_MIB_OIDS.output_source_raw.oid, UPS_MIB_OIDS.battery_status.oid}

\* the coordinator passes hass = self.hass (lines 250 and 266)
BatchCalls ==
    UNION {{[fn |-> "get_snmp_values", oids |-> oids, outcomes |-> outcomes,
             hass |-> TRUE, use_executor |-> use_executor] :
               oids \in [1..n -> BatchOids], outcomes \in [1..n -> Outcomes],
               use_executor \in BOOLEAN} :
           n \in 0..MaxBatch}

Returned(raised, value) == [done |-> TRUE, raised |-> raised, value |-> value]

CallDerive ==
    /\ call.fn = "derive_states"
    /\ ~ret.done
    /\ LET r == derive_states(call.protocol, call.data)
       IN  ret' = Returned(r.raised, r.derived)
    /\ UNCHANGED <<now, cfg, locks, cstate, tstate, hist, call>>

CallFetchKeys ==
    /\ call.fn = "fetch_keys"
    /\ ~ret.done
    /\ LET r == fetch_keys_result(protocol_oids(call.protocol), call.keys, FetchRaw(call))
       IN  ret' = Returned(r.raised, r.data)
    /\ UNCHANGED <<now, cfg, locks, cstate, tstate, hist, call>>

CallGetValues ==
    /\ call.fn = "get_snmp_values"
    /\ ~ret.done
    /\ LET r == async_get_snmp_values(call.oids, call.outcomes, call.hass,
                                      call.use_executor)
       IN  ret' = Returned(r.raised, r.values)
    /\ UNCHANGED <<now, cfg, locks, cstate, tstate, hist, call>>

InitFn ==
    /\ InitCoordinators({s \in Scenarios : s.device = "full"})
    /\ call \in DeriveCalls \cup FetchCalls \cup BatchCalls
    /\ ret = NoRet

NextFn ==
    \/ CallDerive
    \/ CallFetchKeys
    \/ CallGetValues

SpecFn == InitFn /\ [][NextFn]_vars

(***************************************************************************)
(* Properties                                                              *)
(***************************************************************************)
\* the task is inside "async with self._io_lock"
InLocked(t) == pc[t] \in {"probe", "fast", "slow"}

\* the task takes a step of its refresh()
Steps(t) == <<pc[t], result[t], req[t], resp[t]>>' # <<pc[t], result[t], req[t], resp[t]>>

\* C1: a refresh() issued while the current time is before backoff_until
\* fails at once with the backoff error, makes no transport call and does
\* not touch the per-host lock.
C1_BackoffGateRejects ==
    [][\A t \in Tasks :
          (/\ pc[t] = "idle"
           /\ backoff_until[coord[t]] # 0
           /\ now < backoff_until[coord[t]]
           /\ Steps(t))
          => /\ result'[t] = "backoff"
             /\ pc'[t] = "idle"
             /\ req' = req
             /\ resp' = resp
             /\ locks' = locks]_vars

C1_Witness ==
    \E t \in Tasks :
        /\ result[t] = "backoff"
        /\ now < backoff_until[coord[t]]
        /\ req[t] = NoReq
        /\ ~locks[io_lock[coord[t]]].locked

\* C2: after N >= 1 failed cycles in a row the failure count is N and the
\* backoff deadline is the time of the N-th failure plus min(60, 2^N)
\* seconds, hence at most 60 seconds after it.
C2_BackoffAfterNFailures ==
    \A c \in Coords :
        fail_run[c] >= 1 =>
            /\ failure_count[c] = fail_run[c]
            /\ backoff_until[c] =
                  fail_time[c] + (IF Pow(2, fail_run[c]) < 60 THEN Pow(2, fail_run[c]) ELSE 60)
            /\ backoff_until[c] - fail_time[c] <= 60

C2_Witness ==
    \E c \in Coords : fail_run[c] >= 6 /\ backoff_until[c] = fail_time[c] + 60

\* C3: a successful cycle resets the failure count to 0 and the backoff
\* deadline to none whatever they were; while no failure has followed the
\* success no refresh() is rejected by the gate, and the next failure sets a
\* backoff of 2 seconds.
C3_SuccessResetsBackoff ==
    [][\A t \in Tasks :
          LET c == coord[t]
          IN  /\ (result[t] = "running" /\ result'[t] = "ok")
                    => failure_count'[c] = 0 /\ backoff_until'[c] = 0
              /\ (fail_run[c] = 0 /\ pc[t] = "idle" /\ Steps(t))
                    => result'[t] = "running"
              /\ (fail_run[c] = 0 /\ result[t] = "running" /\ result'[t] = "failed")
                    => failure_count'[c] = 1 /\ backoff_until'[c] = now + 2]_vars

\* a cycle has failed and a later one of the same coordinator succeeded
C3_Witness ==
    \E t, u \in Tasks :
        /\ t # u
        /\ coord[t] = coord[u]
        /\ result[t] = "ok"
        /\ result[u] = "failed"
        /\ failure_count[coord[t]] = 0
        /\ backoff_until[coord[t]] = 0

\* C4: cycles against one host exclude each other: two tasks whose
\* coordinators have the same host are never both inside the locked section,
\* and a transport call is in flight only inside it.
C4_HostMutualExclusion ==
    /\ \A t, u \in Tasks :
          (t # u /\ host[coord[t]] = host[coord[u]]) => ~(InLocked(t) /\ InLocked(u))
    /\ \A t \in Tasks : (req[t] # NoReq \/ resp[t] # NoResp) => InLocked(t)

\* a call of one coordinator is in flight while another coordinator of the
\* same host waits for the lock
C4_Witness ==
    \E t, u \in Tasks :
        /\ coord[t] # coord[u]
        /\ host[coord[t]] = host[coord[u]]
        /\ req[t] # NoReq
        /\ pc[u] = "lock_wait"

\* C5: the lock is released on every exit path: a lock is held only while
\* a task of its host is inside the locked section, so no refresh that has
\* returned or failed still holds it.
C5_LockReleasedOnExit ==
    \A key \in DOMAIN locks :
        locks[key].locked => \E t \in Tasks : InLocked(t) /\ io_lock[coord[t]] = key

\* a cycle has failed after taking the lock and the lock is free again
C5_Witness ==
    \E t \in Tasks :
        /\ result[t] = "failed"
        /\ fail_run[coord[t]] >= 1
        /\ ~locks[io_lock[coord[t]]].locked

\* C6: once detection has set the dialect, dialect and version never change
\* and no detection probe is issued again.
C6_DetectionIsPermanent ==
    [][\A c \in Coords :
          protocol[c] # "none" =>
              /\ protocol'[c] = protocol[c]
              /\ snmp_version'[c] = snmp_version[c]
              /\ \A t \in Tasks : coord[t] = c => pc'[t] # "probe"]_vars

\* a later cycle of a coordinator locked to UPS/2c fetches from a device
\* that also answers the vendor dialect's identifying field
C6_Witness ==
    \E t \in Tasks :
        LET c == coord[t]
        IN  /\ protocol[c] = UPS_MIB
            /\ snmp_version[c] = "2c"
            /\ data[c] # EmptyDict
            /\ pc[t] = "fast"
            /\ APC_MIB_OIDS.model.oid \in DOMAIN DeviceAnswers(scenario.device)

\* C7: detection probes (2c, UPS), (2c, vendor), (1, UPS), (1, vendor) in
\* this order, each for the dialect's identifying field; the first probe
\* that returns a value sets dialect and version and is followed by the
\* fast fetch, not by another probe; every fetch uses the coordinator's
\* version.
C7ProbeVersion(i) == IF i <= 2 THEN "2c" ELSE "1"
C7ProbeDialect(i) == IF i \in {1, 3} THEN UPS_MIB ELSE APC_MIB
C7ProbeOid(i) ==
    IF i \in {1, 3} THEN "1.3.6.1.2.1.33.1.4.1.0" ELSE "1.3.6.1.4.1.318.1.1.1.1.1.1.0"

C7_DetectionOrder ==
    [][\A t \in Tasks :
          LET c == coord[t]
          IN  /\ (pc'[t] = "probe" /\ pc[t] # "probe") => probe'[t] = 1
              /\ (pc'[t] = "probe" /\ req'[t] # NoReq)
                    => req'[t] = [oids |-> {C7ProbeOid(probe'[t])},
                                  version |-> C7ProbeVersion(probe'[t])]
              /\ (pc[t] = "probe" /\ resp[t] # NoResp /\ Steps(t))
                    => IF resp[t][C7ProbeOid(probe[t])] # None
                       THEN /\ protocol'[c] = C7ProbeDialect(probe[t])
                            /\ snmp_version'[c] = C7ProbeVersion(probe[t])
                            /\ pc'[t] = "fast"
                       ELSE probe[t] < 4 => pc'[t] = "probe" /\ probe'[t] = probe[t] + 1
              /\ (pc'[t] \in {"fast", "slow"} /\ req'[t] # NoReq)
                    => req'[t].version = snmp_version'[c]]_vars

\* the fourth probe won: the coordinator fetches with the vendor dialect at
\* version 1
C7_Witness ==
    \E t \in Tasks :
        LET c == coord[t]
        IN  /\ protocol[c] = APC_MIB
            /\ snmp_version[c] = "1"
            /\ pc[t] = "fast"
            /\ req[t] # NoReq
            /\ req[t].version = "1"
            /\ data[c] = EmptyDict

\* every value of a batch reply is None
NothingReturned(reply) == \A oid \in DOMAIN reply : reply[oid] = None

\* C8: when all four probes return nothing, detection sets the UPS dialect
\* with version 2c and raises nothing: the same cycle goes on to the fast
\* fetch, and it fails only by the no-data rule (nothing fetched, fast or
\* slow, and no prior snapshot).
C8_DetectionDefaultIsSoft ==
    [][\A t \in Tasks :
          LET c == coord[t]
          IN  /\ (/\ pc[t] = "probe"
                  /\ probe[t] = 4
                  /\ resp[t] # NoResp
                  /\ NothingReturned(resp[t])
                  /\ Steps(t))
                    => /\ protocol'[c] = UPS_MIB
                       /\ snmp_version'[c] = "2c"
                       /\ result'[t] = "running"
                       /\ pc'[t] = "fast"
                       /\ req'[t] # NoReq
                       /\ failure_count'[c] = failure_count[c]
              /\ (probe[t] = 5 /\ result[t] = "running" /\ result'[t] = "failed")
                    => /\ data[c] = EmptyDict
                       /\ fast_data[t] = EmptyDict
                       /\ NothingReturned(resp[t])]_vars

\* C9: after a successful cycle every raw key holds the value fetched in
\* this cycle if one was fetched, fast or else slow, and otherwise the value
\* of the previous snapshot; no key of a snapshot is ever lost.
C9_SnapshotOverlay ==
    [][\A t \in Tasks :
          LET c == coord[t]
              oid_map == protocol_oids(protocol[c])
              fast == IF pc[t] = "fast"
                      THEN fetch_keys_result(oid_map, fast_keys, resp[t]).data
                      ELSE fast_data[t]
              slow == IF pc[t] = "slow"
                      THEN fetch_keys_result(oid_map, slow_keys(protocol[c]), resp[t]).data
                      ELSE EmptyDict
          IN  /\ (result[t] = "running" /\ result'[t] = "ok")
                    => \A key \in RawKeys :
                          IF key \in DOMAIN fast
                          THEN key \in DOMAIN data'[c] /\ data'[c][key] = fast[key]
                          ELSE IF key \in DOMAIN slow
                          THEN key \in DOMAIN data'[c] /\ data'[c][key] = slow[key]
                          ELSE IF key \in DOMAIN data[c]
                          THEN key \in DOMAIN data'[c] /\ data'[c][key] = data[c][key]
                          ELSE key \notin DOMAIN data'[c]
              /\ (DOMAIN data[c]) \subseteq (DOMAIN data'[c])]_vars

\* the last successful cycle fetched one raw key and took another over from
\* the snapshot before it
C9_Witness ==
    \E c \in Coords :
        /\ carried[c] # {}
        /\ ((DOMAIN data[c]) \cap RawKeys) \ carried[c] # {}
        /\ failure_count[c] = 0

\* C10: a raw key is in the snapshot only if the transport has returned a
\* value for its identifier to this coordinator; a key whose identifier
\* never returned one is absent, not filled with a default.
C10_NoDefaultValues ==
    \A c \in Coords :
        \A key \in (DOMAIN data[c]) \cap RawKeys :
            /\ protocol[c] # "none"
            /\ key \in DOMAIN protocol_oids(protocol[c])
            /\ protocol_oids(protocol[c])[key].oid \in returned[c]

\* a snapshot was published while battery_status, which the device can
\* answer, has never been returned: the key is absent
C10_Witness ==
    \E c \in Coords :
        /\ protocol[c] = UPS_MIB
        /\ data[c] # EmptyDict
        /\ UPS_MIB_OIDS.battery_status.oid \in DOMAIN DeviceAnswers(scenario.device)
        /\ UPS_MIB_OIDS.battery_status.oid \notin returned[c]
        /\ "battery_status" \notin DOMAIN data[c]

\* the step of task t ends its cycle after the fetches
CycleEnds(t) ==
    /\ result[t] = "running"
    /\ result'[t] \in {"ok", "failed"}

\* the normalised replies of the cycle that task t is about to end: the fast
\* one, and the slow one when the slow fetch was made
EndFast(t) ==
    IF pc[t] = "fast"
    THEN fetch_keys_result(protocol_oids(protocol[coord[t]]), fast_keys, resp[t])
    ELSE [raised |-> FALSE, data |-> fast_data[t]]

EndSlow(t) ==
    IF pc[t] = "slow"
    THEN fetch_keys_result(protocol_oids(protocol[coord[t]]),
                           slow_keys(protocol[coord[t]]), resp[t])
    ELSE [raised |-> FALSE, data |-> EmptyDict]

\* C11: a cycle whose fast fetch and slow fetch both yield no value fails
\* (failure count incremented, backoff set, snapshot untouched) when the
\* coordinator has no prior snapshot; with a non-empty prior snapshot the
\* same cycle succeeds and every key of the prior snapshot keeps its value.
C11_NoDataRule ==
    [][\A t \in Tasks :
          LET c == coord[t]
          IN  (/\ CycleEnds(t)
               /\ ~EndFast(t).raised /\ EndFast(t).data = EmptyDict
               /\ ~EndSlow(t).raised /\ EndSlow(t).data = EmptyDict)
              => IF data[c] = EmptyDict
                 THEN /\ result'[t] = "failed"
                      /\ failure_count'[c] = failure_count[c] + 1
                      /\ backoff_until'[c] > now
                      /\ data'[c] = EmptyDict
                 ELSE /\ result'[t] = "ok"
                      /\ \A key \in DOMAIN data[c] :
                            key \in DOMAIN data'[c] /\ data'[c][key] = data[c][key]]_vars

\* a coordinator that holds a snapshot has finished a cycle in which nothing
\* was returned, and the cycle succeeded
C11_Witness ==
    \E t \in Tasks :
        LET c == coord[t]
        IN  /\ result[t] = "ok"
            /\ silent[c]
            /\ data[c] # EmptyDict
            /\ failure_count[c] = 0

\* C12: whatever state the coordinator is in, a device that stays
\* unreachable over consecutive cycles makes it set a backoff window: the
\* second cycle in a row in which no identifier query returned a value ends
\* with a backoff deadline after the current time.
C12_UnreachableSetsBackoff ==
    [][\A t \in Tasks :
          LET c == coord[t]
          IN  (CycleEnds(t) /\ ~heard[t] /\ silent[c])
              => /\ result'[t] = "failed"
                 /\ backoff_until'[c] > now]_vars

\* the fast reply of task t has come back, has been normalised without an
\* error, and the task goes on
FastDecides(t) ==
    /\ pc[t] = "fast"
    /\ resp[t] # NoResp
    /\ Steps(t)
    /\ ~EndFast(t).raised

\* the step of task t issues the slow fetch
SlowFetched(t) ==
    /\ pc'[t] = "slow"
    /\ req'[t] = [oids |-> {protocol_oids(protocol[coord[t]])[key].oid :
                               key \in (DOMAIN protocol_oids(protocol[coord[t]])) \ fast_keys},
                  version |-> snmp_version[coord[t]]]

C14_DerivedKeysFollowOutputSource ==
    \A c \in Coords :
        LET keys == DOMAIN data[c]
        IN  /\ \A key \in {"ac_power", "on_battery", "on_bypass", "output_source"} :
                  key \in keys <=> "output_source_raw" \in keys
            /\ \A key \in {"ac_power", "on_battery", "on_bypass"} \cap keys :
                  data[c][key].k = "bool"
            /\ "output_source_raw" \notin keys
                  => keys \ RawKeys \subseteq {"battery_status_text"}

\* a published snapshot without output_source_raw: battery_status_text is
\* derived and the booleans are absent
C14_Witness ==
    \E c \in Coords :
        /\ "battery_status_text" \in DOMAIN data[c]
        /\ "output_source_raw" \notin DOMAIN data[c]
        /\ "on_battery" \notin DOMAIN data[c]

\* the enumeration texts of the two dialects, as the specification lists them
C15Text(p, code) ==
    IF p = "apc_mib"
    THEN CASE code = 1 -> "other" [] code = 2 -> "normal" [] code = 3 -> "battery"
           [] code = 4 -> "bypass" [] OTHER -> "unknown"
    ELSE CASE code = 1 -> "other" [] code = 2 -> "none" [] code = 3 -> "normal"
           [] code = 4 -> "bypass" [] code = 5 -> "battery" [] code = 6 -> "booster"
           [] code = 7 -> "reducer" [] OTHER -> "unknown"

\* C15: for each dialect and every integer output_source_raw code,
\* _derive_states yields output_source = the dialect's text for the code or
\* "unknown", ac_power = code in the dialect's normal set, on_battery = code
\* in its battery set, on_bypass = the text is "bypass"; UPS code 5 and
\* vendor code 3 both give battery: on_battery, not ac_power, not on_bypass.
C15_DeriveStatesByDialect ==
    (/\ ret.done
     /\ call.fn = "derive_states"
     /\ "output_source_raw" \in DOMAIN call.data
     /\ call.data.output_source_raw.k = "int")
    => LET p == call.protocol
           code == call.data.output_source_raw.v
           text == C15Text(p, code)
           out == ret.value
       IN  /\ ~ret.raised
           /\ out.output_source = PyStr(<<text>>)
           /\ out.ac_power = PyBool(code \in (IF p = "apc_mib" THEN {2, 4} ELSE {3, 4}))
           /\ out.on_battery = PyBool(code \in (IF p = "apc_mib" THEN {3} ELSE {5}))
           /\ out.on_bypass = PyBool(text = "bypass")
           /\ ((p = "ups_mib" /\ code = 5) \/ (p = "apc_mib" /\ code = 3))
                 => /\ out.output_source = PyStr(<<"battery">>)
                    /\ out.on_battery = PyBool(TRUE)
                    /\ out.ac_power = PyBool(FALSE)
                    /\ out.on_bypass = PyBool(FALSE)

\* _derive_states has decoded code 3 of the vendor dialect as battery
C15_Witness ==
    /\ ret.done
    /\ call.fn = "derive_states"
    /\ call.protocol = APC_MIB
    /\ DictGet(call.data, "output_source_raw") = PyInt(3)
    /\ ret.value.on_battery = PyBool(TRUE)

\* the battery status texts, as the specification lists them
C16Text(code) ==
    CASE code = 1 -> "unknown" [] code = 2 -> "normal" [] code = 3 -> "low"
      [] code = 4 -> "depleted" [] OTHER -> "unknown"

C17_TextPassesThrough ==
    (/\ ret.done
     /\ call.fn = "fetch_keys"
     /\ coerce_snmp_value(PyStr(call.text)).k = "str")
    => /\ ~ret.raised
       /\ \E key \in call.keys \cap DOMAIN protocol_oids(call.protocol) :
             /\ protocol_oids(call.protocol)[key].oid = call.oid
             /\ ret.value = (key :> PyStr(call.text))

\* what the caller is to get for one GET: the value's text without the
\* blanks around it, and no value for a failure or a blank text
C18Expected(outcome) ==
    IF outcome.kind # "value" THEN None
    ELSE CASE outcome.text = <<"3">> -> PyStr(<<"3">>)
           [] outcome.text = <<" ", "7">> -> PyStr(<<"7">>)
           [] OTHER -> None

\* C18: a batch query never fails as a whole: for any list of identifiers
\* and any mix of outcomes (value, timeout, error, missing sentinel) it
\* returns a mapping whose keys are exactly the identifiers asked, each
\* mapped to its own GET's value or to no value when that GET failed,
\* whatever the other GETs did (of an identifier listed twice the later GET
\* counts); for an empty list it returns an empty mapping.
C18_BatchNeverFails ==
    (ret.done /\ call.fn = "get_snmp_values")
    => LET n == Len(call.oids)
       IN  /\ ~ret.raised
           /\ DOMAIN ret.value = {call.oids[i] : i \in 1..n}
           /\ \A i \in 1..n :
                 (\A j \in 1..n : call.oids[j] = call.oids[i] => j <= i)
                    => ret.value[call.oids[i]] = C18Expected(call.outcomes[i])
           /\ n = 0 => ret.value = EmptyDict

\* a batch of two identifiers has returned: the first GET timed out, the
\* second one's value is there
C18_Witness ==
    /\ ret.done
    /\ call.fn = "get_snmp_values"
    /\ Len(call.oids) = 2
    /\ call.oids[1] # call.oids[2]
    /\ call.outcomes[1].kind = "timeout"
    /\ call.outcomes[2].kind = "value"
    /\ ~ret.raised
    /\ ret.value[call.oids[1]] = None
    /\ ret.value[call.oids[2]] = PyStr(<<"3">>)

\* the snapshot key each metadata field is read from
C19Key(field) ==
    CASE field = "manufacturer" -> "manufacturer"
      [] field = "hw_model" -> "model"
      [] field = "serial_number" -> "serial_number"
      [] field = "fw_version" -> "firmware"

\* C19: the device metadata is sticky: a field that has been set is never
\* set back to none by any step, of a successful, failed or rejected cycle,
\* and it changes only to a value that the cycle ending in that step has
\* fetched for the field.
C19_MetadataSticky ==
    [][\A c \in Coords : \A field \in DOMAIN NoMetadata :
          metadata[c][field] # None
          => /\ metadata'[c][field] # None
             /\ metadata'[c][field] # metadata[c][field]
                   => \E t \in Tasks :
                         /\ coord[t] = c
                         /\ CycleEnds(t)
                         /\ result'[t] = "ok"
                         /\ C19Key(field) \in DOMAIN EndSlow(t).data
                         /\ metadata'[c][field] = EndSlow(t).data[C19Key(field)]]_vars

\* the model field came back as 0 after the hardware model had been set:
\* the snapshot holds the 0, the metadata keeps the model
C19_Witness ==
    \E c \in Coords :
        /\ metadata[c].hw_model = PyStr(<<"M">>)
        /\ DictGet(data[c], "model") = PyInt(0)

\* C20: the coordinator is never stuck in backoff: a refresh() issued once
\* the current time has reached the backoff deadline, after however many
\* failures, passes the gate and goes on to the transport (at once, or
\* after queueing for the lock); a refresh() rejected inside the window
\* changes neither the deadline nor the failure count; and a deadline is
\* never set more than 60 seconds ahead.
C20_BackoffEnds ==
    [][\A t \in Tasks :
          LET c == coord[t]
          IN  /\ (pc[t] = "idle" /\ Steps(t) /\ now >= backoff_until[c])
                    => /\ result'[t] = "running"
                       /\ req'[t] # NoReq \/ pc'[t] = "lock_wait"
              /\ (pc[t] = "lock_wait" /\ Steps(t)) => req'[t] # NoReq
              /\ (pc[t] = "idle" /\ Steps(t) /\ result'[t] = "backoff")
                    => /\ backoff_until'[c] = backoff_until[c]
                       /\ failure_count'[c] = failure_count[c]
              /\ backoff_until'[c] # backoff_until[c] => backoff_until'[c] <= now + 60]_vars

\* a refresh() issued at the very deadline, after two failures or more, has
\* its transport call in flight
C20_Witness ==
    \E t \in Tasks :
        LET c == coord[t]
        IN  /\ result[t] = "running"
            /\ failure_count[c] >= 2
            /\ t_now[t] = backoff_until[c]
            /\ req[t] # NoReq

\* C26: in every reachable state the failure count of a coordinator is 0 if
\* and only if it has no backoff deadline (0.0), and a deadline exists
\* exactly when at least one cycle has failed since the last success, also
\* while refreshes of the coordinator overlap.
C26_CountZeroIffNoDeadline ==
    \A c \in Coords :
        /\ failure_count[c] = 0 <=> backoff_until[c] = 0
        /\ backoff_until[c] # 0 <=> fail_run[c] >= 1

\* two cycles in a row have failed and a further refresh of the coordinator,
\* which passed the gate before, is inside the locked section
C26_Witness ==
    \E t \in Tasks :
        LET c == coord[t]
        IN  /\ InLocked(t)
            /\ failure_count[c] >= 2
            /\ now < backoff_until[c]

\* the snapshot holds True under the key
IsTrue(snapshot, key) == DictGet(snapshot, key) = PyBool(TRUE)

\* C27: in every published snapshot, of either dialect, on_battery and
\* ac_power are never both true, and on_bypass true implies ac_power true
\* and on_battery false.
C27_PowerStatesConsistent ==
    \A c \in Coords :
        /\ ~(IsTrue(data[c], "on_battery") /\ IsTrue(data[c], "ac_power"))
        /\ IsTrue(data[c], "on_bypass")
              => IsTrue(data[c], "ac_power") /\ ~IsTrue(data[c], "on_battery")

\* a coordinator of the UPS dialect and one of the vendor dialect have both
\* published a snapshot: one on bypass, the other on battery
C27_Witness ==
    \E c, d \in Coords :
        /\ protocol[c] = UPS_MIB
        /\ protocol[d] = APC_MIB
        /\ IsTrue(data[c], "on_bypass")
        /\ IsTrue(data[c], "ac_power")
        /\ IsTrue(data[d], "on_battery")
        /\ ~IsTrue(data[d], "ac_power")
        /\ DictGet(data[d], "on_bypass") = PyBool(FALSE)

\* C25: a cycle that fails after acquiring the lock changes only the failure
\* count, the backoff deadline and, when detection ran in it, dialect and
\* version: the step that ends it in failure leaves the snapshot, the
\* metadata and last_slow_poll as they were, so last_slow_poll advances only
\* in a cycle whose slow results are published.
C25_FailedCycleKeepsState ==
    [][\A t \in Tasks :
          LET c == coord[t]
          IN  /\ (CycleEnds(t) /\ result'[t] = "failed")
                    => /\ data'[c] = data[c]
                       /\ metadata'[c] = metadata[c]
                       /\ last_slow_poll'[c] = last_slow_poll[c]
                       /\ failure_count'[c] = failure_count[c] + 1
              /\ last_slow_poll'[c] # last_slow_poll[c]
                    => \E u \in Tasks :
                          /\ coord[u] = c
                          /\ result'[u] = "ok"
                          /\ CycleEnds(u)]_vars

\* the tasks queued for the lock of task t's host
Waiters(t) ==
    {locks[io_lock[coord[t]]].waiters[i] :
        i \in 1..Len(locks[io_lock[coord[t]]].waiters)}

\* the refresh of task t has run its cycle to the end
Completed(t) == pc[t] = "idle" /\ result[t] \in {"ok", "failed"}

\* C21: provided every transport call returns, a refresh() that waits for
\* the per-host lock is in the lock's queue until it gets the lock, and it
\* eventually gets it and completes its cycle, whether the cycle before it
\* ends in success or in failure.
C21_QueuedRefreshCompletes ==
    /\ [](\A t \in Tasks : pc[t] = "lock_wait" <=> t \in Waiters(t))
    /\ \A t \in Tasks : (pc[t] = "lock_wait") ~> Completed(t)

\* the cycle of one coordinator has failed while a refresh of another
\* coordinator of the same host, issued before, waited: the waiting one now
\* has the lock and its transport call in flight
C21_Witness ==
    \E t, u \in Tasks :
        /\ coord[t] # coord[u]
        /\ host[coord[t]] = host[coord[u]]
        /\ result[u] = "failed"
        /\ t_now[t] < fail_time[coord[u]]
        /\ InLocked(t)
        /\ req[t] # NoReq

\* C22: backoff is evaluated only at the entry of refresh(): a refresh that
\* has passed the gate is never ended by the backoff error; when it gets the
\* lock it issues its transport call, and it runs its cycle to completion
\* through the fast fetch, also when another refresh of the same coordinator
\* has meanwhile set a backoff deadline in the future.
C22_BackoffNeverCancels ==
    /\ [][\A t \in Tasks :
             (pc[t] # "idle" /\ Steps(t))
             => /\ result'[t] \in {"running", "ok", "failed"}
                /\ pc[t] = "lock_wait" => (InLocked(t))' /\ req'[t] # NoReq
                /\ CycleEnds(t) => pc[t] \in {"fast", "slow"}]_vars
    /\ \A t \in Tasks :
          (pc[t] # "idle" /\ BackoffActive(backoff_until[coord[t]], now))
             ~> Completed(t)

\* a refresh that passed the gate and then waited for the lock has its
\* transport call in flight inside the backoff window that another refresh
\* of the same coordinator has set meanwhile
C22_Witness ==
    \E t \in Tasks :
        LET c == coord[t]
        IN  /\ InLocked(t)
            /\ req[t] # NoReq
            /\ t_now[t] <= fail_time[c]
            /\ failure_count[c] = 1
            /\ now < backoff_until[c]

\* the state a coordinator owns: snapshot, metadata, dialect, version,
\* last_slow_poll, failure count and backoff deadline
Owned(c) ==
    <<data[c], metadata[c], protocol[c], snmp_version[c], last_slow_poll[c],
      failure_count[c], backoff_until[c]>>

\* C23: coordinators are isolated except for the lock: a step of a refresh()
\* of coordinator A leaves the snapshot, metadata, dialect, version,
\* last_slow_poll, failure count and backoff deadline of every other
\* coordinator B unchanged, also when A and B have the same host; a failure
\* of A never puts B into backoff.
C23_CoordinatorsIsolated ==
    [][\A t \in Tasks : \A b \in Coords \ {coord[t]} :
          /\ Steps(t) => Owned(b)' = Owned(b)
          /\ (CycleEnds(t) /\ result'[t] = "failed")
                => /\ failure_count'[b] = failure_count[b]
                   /\ backoff_until'[b] = backoff_until[b]]_vars

\* coordinator a is in backoff after a failed cycle while coordinator b of
\* the same host, which holds a snapshot and has no failure, is fetching
C23_Witness ==
    \E t \in Tasks : \E a \in Coords \ {coord[t]} :
        LET b == coord[t]
        IN  /\ host[a] = host[b]
            /\ failure_count[a] >= 1
            /\ now < backoff_until[a]
            /\ data[b] # EmptyDict
            /\ failure_count[b] = 0
            /\ backoff_until[b] = 0
            /\ pc[t] = "fast"

\* C24: a refresh() rejected by the backoff gate changes nothing: failure
\* count, backoff deadline, dialect, version, last_slow_poll, snapshot and
\* metadata of the coordinator keep their values and the lock is not
\* touched, so rejected calls are not counted as failures.
C24_RejectedRefreshChangesNothing ==
    [][\A t \in Tasks :
          (pc[t] = "idle" /\ result'[t] = "backoff" /\ Steps(t))
          => /\ Owned(coord[t])' = Owned(coord[t])
             /\ locks' = locks
             /\ fail_run'[coord[t]] = fail_run[coord[t]]
             /\ pc'[t] = "idle"]_vars

\* after one failed cycle two refreshes of the coordinator have been
\* rejected: the count is still 1 and the deadline still 2 seconds after
\* the failure
C24_Witness ==
    \E t, u \in Tasks :
        LET c == coord[t]
        IN  /\ t # u
            /\ coord[u] = c
            /\ result[t] = "backoff"
            /\ result[u] = "backoff"
            /\ failure_count[c] = 1
            /\ backoff_until[c] = fail_time[c] + 2
            /\ now < backoff_until[c]

====
